---- MODULE Spec2Model ----
(***************************************************************************)
(* The nn_features notebook as a sequential program: the Taylor loop       *)
(* (cell 3), the full-batch gradient descent and its p-values (cell 4),    *)
(* the mini-batch gradient descent and its p-values (cell 5).              *)
(*                                                                         *)
(* Floating-point numbers are fixed-point integers: a value v stands for   *)
(* v / Scale (v / TaylorScale in the Taylor loop), every division rounds   *)
(* toward zero, and a magnitude beyond MaxAbs is the non-finite value NaN, *)
(* which every later operation propagates and no comparison accepts.       *)
(***************************************************************************)
EXTENDS Integers, Sequences, FiniteSets, TLC

VARIABLES
    pc,             \* position in the notebook
    i,              \* loop variable of the two for loops (lines 106, 252)
    d,              \* order of the derivative held by d (line 107)
    approx_total,   \* line 104
    factorial,      \* line 105
    X, y,           \* the dataset (lines 146, 148)
    W, b,           \* the model (line 162)
    learning_rate,  \* <<numerator, denominator>> (lines 164, 242)
    epoch,          \* lines 165, 246
    old_W, old_b,   \* lines 167, 256
    loss_val,       \* lines 168, 257
    grad_W, grad_b, \* lines 169, 259
    key,            \* line 249
    indices,        \* line 250
    minibatch_loss, \* line 251
    sigma2,         \* lines 185, 275
    eig_vals,       \* lines 193, 283
    W_std,          \* the diagonal of W_std (lines 194, 284)
    eig_vecs,       \* lines 193, 283: rows are eigenvectors, unnormalised
    W_pvals,        \* lines 196, 286
    fit_W, fit_b,   \* history: the (W, b) on which the full-batch loop ended
    epoch_W, epoch_b, \* history: the (W, b) at the start of the mini-batch epoch
    run1, run2      \* two runs of the mini-batch loop (two-run specification)

taylorVars == <<d, approx_total, factorial>>
dataVars == <<X, y>>
stepVars == <<old_W, old_b, loss_val, grad_W, grad_b>>
sampleVars == <<key, indices, minibatch_loss>>
pvalVars == <<sigma2, eig_vals, eig_vecs, W_std, W_pvals>>
histVars == <<fit_W, fit_b, epoch_W, epoch_b>>
runVars == <<run1, run2>>

vars == <<pc, i, taylorVars, dataVars, W, b, learning_rate, epoch, stepVars,
          sampleVars, pvalVars, histVars, runVars>>

---------------------------------------------------------------------------
(* Bounds of the model *)

Scale == 100
TaylorScale == 1000000
MaxAbs == 3000
MaxEpoch == 6
Tol == 2
batch_size == 2
num_batches == 2

(* Constants of the program *)

highest_order == 5
X0 == 49
Offset == -6
SqrtX0 == 7

---------------------------------------------------------------------------
(* Fixed-point arithmetic *)

\* the two non-finite values; neither takes part in integer arithmetic
NaN == -(2^30)
Inf == 2^30

Abs(v) == IF v < 0 THEN -v ELSE v

\* num / den rounded toward zero, den > 0
Quot(num, den) == IF num >= 0 THEN num \div den ELSE -((-num) \div den)

\* a result too large for the number format is non-finite
Clip(v) == IF v > MaxAbs \/ v < -MaxAbs THEN NaN ELSE v

RECURSIVE Pow(_, _)
Pow(v, n) == IF n = 0 THEN 1 ELSE v * Pow(v, n - 1)

RECURSIVE Factorial(_)
Factorial(n) == IF n = 0 THEN 1 ELSE n * Factorial(n - 1)

RECURSIVE SumTo(_, _)
\* f[1] + ... + f[n]
SumTo(f, n) == IF n = 0 THEN 0 ELSE f[n] + SumTo(f, n - 1)

---------------------------------------------------------------------------
(* Cell 3: the Taylor loop *)

RECURSIVE DerivAtX0(_)
\* grad applied n times to sqrt, evaluated at 49.0:
\* sqrt^(n)(x) = sqrt^(n-1)(x) * (1/2 - (n-1)) / x
DerivAtX0(n) ==
    IF n = 0 THEN SqrtX0 * TaylorScale
    ELSE Quot(DerivAtX0(n - 1) * (3 - 2 * n), 2 * X0)

\* the term added at line 108 with the loop variable at k
TaylorTerm(k, order, divisor) == Quot(DerivAtX0(order) * Pow(Offset, k), divisor)

TaylorStep ==
    /\ pc = "taylor"
    /\ i < highest_order
    /\ i' = i + 1
    /\ d' = d + 1
    /\ approx_total' = approx_total + TaylorTerm(i', d', factorial)
    /\ factorial' = factorial * i'
    /\ UNCHANGED <<pc, dataVars, W, b, learning_rate, epoch, stepVars, sampleVars,
                   pvalVars, histVars, runVars>>

TaylorDone ==
    /\ pc = "taylor"
    /\ i = highest_order
    /\ pc' = "fb_setup"
    /\ UNCHANGED <<i, taylorVars, dataVars, W, b, learning_rate, epoch, stepVars,
                   sampleVars, pvalVars, histVars, runVars>>

---------------------------------------------------------------------------
(* Cell 4: data, model, loss and the full-batch loop *)

\* Datasets of four samples: X holds whole-number features, y the targets in
\* units of 1/Scale.  Every dataset is centred with equal feature sums of
\* squares (the inputs Eigh is defined on).  The third repeats one feature
\* column.
Datasets ==
    { [X |-> << <<1, 1>>, <<1, -1>>, <<-1, 1>>, <<-1, -1>> >>,
       y |-> <<300, -300, 300, 100>>],
      [X |-> << <<1, 0>>, <<0, 1>>, <<-1, -1>>, <<0, 0>> >>,
       y |-> <<50, 350, 50, -50>>],
      [X |-> << <<1, 1>>, <<-1, -1>>, <<0, 0>>, <<0, 0>> >>,
       y |-> <<250, 50, -30, 130>>] }

\* linear_model(2, 1): normal draws for w and b
InitialModels ==
    { [W |-> <<54, 124>>, b |-> -12],
      [W |-> <<0, 0>>, b |-> 0],
      [W |-> <<-90, 210>>, b |-> 100] }

LearningRates == { <<1, 8>>, <<1, 4>>, <<1, 1>> }
MiniBatchLearningRates == { <<1, 100>>, <<1, 20>>, <<1, 10>> }

IsFinite(w, c) == w[1] # NaN /\ w[2] # NaN /\ c # NaN

\* predict(w, b, x) = dot(x, w) + b, for one sample
predict(w, c, x) == x[1] * w[1] + x[2] * w[2] + c

\* loss(w, b, x, y) = mean((predict(w, b, x) - y)**2)
loss(w, c, xs, ys) ==
    IF ~IsFinite(w, c) THEN NaN
    ELSE LET sq == [n \in 1..Len(xs) |->
                       (predict(w, c, xs[n]) - ys[n]) * (predict(w, c, xs[n]) - ys[n])]
         IN  Quot(SumTo(sq, Len(xs)), Len(xs) * Scale)

\* grad(loss, (0, 1))(w, b, x, y): the derivative in w[j] ...
GradW(w, c, xs, ys) ==
    [j \in 1..2 |->
        IF ~IsFinite(w, c) THEN NaN
        ELSE LET rx == [n \in 1..Len(xs) |->
                           (predict(w, c, xs[n]) - ys[n]) * xs[n][j]]
             IN  Quot(2 * SumTo(rx, Len(xs)), Len(xs))]

\* ... and in b
GradB(w, c, xs, ys) ==
    IF ~IsFinite(w, c) THEN NaN
    ELSE LET r == [n \in 1..Len(xs) |-> predict(w, c, xs[n]) - ys[n]]
         IN  Quot(2 * SumTo(r, Len(xs)), Len(xs))

\* v - learning_rate * g
FullStep(v, g, lr) ==
    IF v = NaN \/ g = NaN THEN NaN ELSE Clip(v - Quot(lr[1] * g, lr[2]))

Diff(v, u) == IF v = NaN \/ u = NaN THEN NaN ELSE v - u

DiffW(w, u) == [j \in 1..2 |-> Diff(w[j], u[j])]

\* jnp.linalg.norm(dv) < 1e-5, as the squared norm against the squared tolerance
NormBelowTol(dv) ==
    /\ \A j \in 1..Len(dv) : dv[j] # NaN
    /\ SumTo([j \in 1..Len(dv) |-> dv[j] * dv[j]], Len(dv)) < Tol * Tol

\* a test that accepts either norm below the tolerance
ConvergedEither(dW, db) == NormBelowTol(dW) \/ NormBelowTol(<<db>>)

\* the test of lines 176 and 266
Converged(dW, db) == NormBelowTol(dW) /\ NormBelowTol(<<db>>)

\* epoch += 1; the model's counter stops counting at MaxEpoch
NextEpoch(e) == IF e < MaxEpoch THEN e + 1 ELSE e

FBSetup ==
    /\ pc = "fb_setup"
    /\ \E m \in InitialModels, lr \in LearningRates :
          /\ W' = m.W
          /\ b' = m.b
          /\ learning_rate' = lr
    /\ epoch' = 0
    /\ pc' = "fb_loop"
    /\ UNCHANGED <<i, taylorVars, dataVars, stepVars, sampleVars, pvalVars, histVars, runVars>>

\* one pass of the while loop of lines 166-179
FullBatchEpoch ==
    /\ pc = "fb_loop"
    /\ old_W' = W
    /\ old_b' = b
    /\ loss_val' = loss(W, b, X, y)
    /\ grad_W' = GradW(W, b, X, y)
    /\ grad_b' = GradB(W, b, X, y)
    /\ W' = [j \in 1..2 |-> FullStep(W[j], grad_W'[j], learning_rate)]
    /\ b' = FullStep(b, grad_b', learning_rate)
    /\ IF Converged(DiffW(W', old_W'), Diff(b', old_b'))
       THEN /\ pc' = "fb_pvals"
            /\ epoch' = epoch
            /\ fit_W' = W'
            /\ fit_b' = b'
       ELSE /\ pc' = "fb_loop"
            /\ epoch' = NextEpoch(epoch)
            /\ UNCHANGED <<fit_W, fit_b, runVars>>
    /\ UNCHANGED <<i, taylorVars, dataVars, learning_rate, sampleVars, pvalVars,
                   epoch_W, epoch_b, runVars>>

---------------------------------------------------------------------------
(* The p-values of the coefficients (the tails of cells 4 and 5) *)

\* floor of the square root
ISqrt(n) == CHOOSE r \in 0..n : r * r <= n /\ n < (r + 1) * (r + 1)

\* a row of X_ = hstack([ones, X])
AugRow(x) == <<1, x[1], x[2]>>

\* jnp.dot(X_.T, X_)
Gram(xs) ==
    [j \in 1..3 |-> [k \in 1..3 |->
        SumTo([n \in 1..Len(xs) |-> AugRow(xs[n])[j] * AugRow(xs[n])[k]], Len(xs))]]

Det3(g) ==
    g[1][1] * (g[2][2] * g[3][3] - g[2][3] * g[3][2])
    - g[1][2] * (g[2][1] * g[3][3] - g[2][3] * g[3][1])
    + g[1][3] * (g[2][1] * g[3][2] - g[2][2] * g[3][1])

\* S = (1/sigma2) * dot(X_.T, X_); 1/0 is inf, and inf times the zero entries
\* of the Gram matrix is NaN
ScaledGram(s2, xs) ==
    [j \in 1..3 |-> [k \in 1..3 |->
        IF s2 = NaN \/ s2 = 0 THEN NaN
        ELSE Quot(Scale * Scale, s2) * Gram(xs)[j][k]]]

\* an ordering of 1..3 that sorts vals ascending
Ascending(vals) ==
    CHOOSE p \in [1..3 -> 1..3] :
        /\ \A j, k \in 1..3 : j # k => p[j] # p[k]
        /\ \A j, k \in 1..3 : j < k => vals[p[j]] <= vals[p[k]]

\* jnp.linalg.eigh on a matrix [[n, 0, 0], [0, a, c], [0, c, a]]: eigenvalues
\* n, a + c, a - c with eigenvectors (1,0,0), (0,1,1), (0,1,-1), in
\* ascending order of eigenvalue; each eigenvector is kept unnormalised with
\* its squared length
Eigh(s) ==
    LET vals == <<s[1][1], s[2][2] + s[2][3], s[2][2] - s[2][3]>>
        vecs == << [v |-> <<1, 0, 0>>, n2 |-> 1],
                   [v |-> <<0, 1, 1>>, n2 |-> 2],
                   [v |-> <<0, 1, -1>>, n2 |-> 2] >>
    IN  IF s[1][1] = NaN
        THEN [vals |-> <<NaN, NaN, NaN>>, vecs |-> vecs]
        ELSE [vals |-> [k \in 1..3 |-> vals[Ascending(vals)[k]]],
              vecs |-> [k \in 1..3 |-> vecs[Ascending(vals)[k]]]]

\* The results eigh can return: rounding decides the sign of an eigenvalue
\* that is exactly zero.
EighResults(s) ==
    { [vals |-> [k \in 1..3 |-> IF Eigh(s).vals[k] = 0 THEN z ELSE Eigh(s).vals[k]],
       vecs |-> Eigh(s).vecs] : z \in {-1, 0, 1} }

\* 1/jnp.sqrt(v)
InvSqrt(v) ==
    IF v = NaN \/ v < 0 THEN NaN
    ELSE IF v = 0 THEN Inf
    ELSE Quot(Scale * Scale, ISqrt(v * Scale))

\* jnp.sqrt(v)
FSqrt(v) ==
    IF v = NaN \/ v < 0 THEN NaN
    ELSE IF v = Inf THEN Inf
    ELSE ISqrt(v * Scale)

\* v / u for v >= 0
FDiv(v, u) ==
    IF v = NaN \/ u = NaN THEN NaN
    ELSE IF u = Inf THEN (IF v = Inf THEN NaN ELSE 0)
    ELSE IF v = Inf THEN Inf
    ELSE IF u = 0 THEN (IF v = 0 THEN NaN ELSE Inf)
    ELSE Quot(v * Scale, u)

\* entry (j, j) of sigma2 * eig_vecs @ diag(1/sqrt(eig_vals)) @ eig_vecs.T
StdDiag(s2, vals, vecs) ==
    [j \in 1..3 |->
        LET t == [k \in 1..3 |-> InvSqrt(vals[k])]
        IN  IF \E k \in 1..3 : t[k] = NaN \/ (t[k] = Inf /\ vecs[k].v[j] = 0)
            THEN NaN
            ELSE IF \E k \in 1..3 : t[k] = Inf
            THEN Inf
            ELSE Quot(s2 * SumTo([k \in 1..3 |->
                          Quot(vecs[k].v[j] * vecs[k].v[j] * t[k], vecs[k].n2)], 3),
                      Scale)]

\* norm.cdf at z >= 0: the table holds 1000 * Phi at 0, 0.5, ..., 3.5 and is
\* interpolated linearly
CdfTable == <<500, 691, 841, 933, 977, 994, 999, 1000>>

NormCdf(z) ==
    IF z = NaN THEN NaN
    ELSE IF z = Inf \/ (2 * z) \div Scale >= 7 THEN Scale
    ELSE LET k == (2 * z) \div Scale
             r == (2 * z) % Scale
         IN  Quot((CdfTable[k + 1] + Quot((CdfTable[k + 2] - CdfTable[k + 1]) * r, Scale))
                  * Scale, 1000)

\* W_ = hstack([b[0], W[0][0], W[1][0]])
Coefficients(w, c) == <<c, w[1], w[2]>>

\* the division by the square root of the diagonal entry
ZScoreSqrt(c, s) == FDiv(Abs(c), FSqrt(s))

\* abs(W_.T) / jnp.diag(W_std), one entry
ZScore(c, s) == FDiv(Abs(c), s)

\* 2 * (1 - norm.cdf(z))
TwoTailed(z) == IF NormCdf(z) = NaN THEN NaN ELSE 2 * (Scale - NormCdf(z))

\* the epoch's mean batch loss, minibatch_loss / num_batches
VarianceEstimateEpochMean(lv, ml) == IF ml = NaN THEN NaN ELSE Quot(ml, num_batches)

\* sigma2 = loss_val
VarianceEstimate(lv, ml) == lv

\* lines 185-196 and 275-286
PValues ==
    /\ sigma2' = VarianceEstimate(loss_val, minibatch_loss)
    /\ \E e \in EighResults(ScaledGram(sigma2', X)) :
          /\ eig_vals' = e.vals
          /\ eig_vecs' = e.vecs
    /\ W_std' = StdDiag(sigma2', eig_vals', eig_vecs')
    /\ W_pvals' = [j \in 1..3 |-> TwoTailed(ZScore(Coefficients(W, b)[j], W_std'[j]))]

FBPValues ==
    /\ pc = "fb_pvals"
    /\ PValues
    /\ pc' = "mb_setup"
    /\ UNCHANGED <<i, taylorVars, dataVars, W, b, learning_rate, epoch, stepVars,
                   sampleVars, histVars, runVars>>

---------------------------------------------------------------------------
(* Cell 5: the mini-batch loop *)

\* a cell that calls linear_model again
MBSetupReinit ==
    /\ pc = "mb_setup"
    /\ \E lr \in MiniBatchLearningRates : learning_rate' = lr
    /\ \E m \in InitialModels : W' = m.W /\ b' = m.b
    /\ epoch' = 0
    /\ pc' = "mb_sample"
    /\ UNCHANGED <<i, taylorVars, dataVars, stepVars, sampleVars, pvalVars, histVars, runVars>>

\* lines 242-246: learning_rate, batch_size, num_samples, num_batches, epoch
MBSetup ==
    /\ pc = "mb_setup"
    /\ \E lr \in MiniBatchLearningRates : learning_rate' = lr
    /\ epoch' = 0
    /\ pc' = "mb_sample"
    /\ UNCHANGED <<i, taylorVars, dataVars, W, b, stepVars, sampleVars, pvalVars,
                   histVars, runVars>>

\* jnr.PRNGKey(seed): the key holds the seed in its low word
PRNGKey(seed) == <<0, seed>>

\* sampling with the key left in the global
StaleKey(e, k) == k

\* key = jnr.PRNGKey(epoch); k is the key the assignment overwrites
SampleKey(e, k) == PRNGKey(e)

\* jnr.randint(key, shape=(rows, cols), minval=0, maxval): a fixed function of
\* the key, with every entry in 0..maxval-1
randint(k, rows, cols, maxval) ==
    [m \in 1..rows |-> [c \in 1..cols |->
        (7 * k[2] + 3 * m + 5 * c + k[2] * m * c + k[1]) % maxval]]

\* X[indices[m]] (and y[indices[m]]), m counted from 0 as the program does
Batch(xs, idx, m) == [k \in 1..Len(idx[m + 1]) |-> xs[idx[m + 1][k] + 1]]

\* a step that leaves out the division by batch_size
BatchStepUnscaled(v, g, lr) ==
    IF v = NaN \/ g = NaN THEN NaN ELSE Clip(v - Quot(lr[1] * g, lr[2]))

\* v - learning_rate * g / batch_size
BatchStep(v, g, lr) ==
    IF v = NaN \/ g = NaN THEN NaN
    ELSE Clip(v - Quot(Quot(lr[1] * g, lr[2]), batch_size))

\* saving the old values before the first batch of the epoch only
SavedOldOncePerEpoch(cur, prev, m) == IF m = 0 THEN cur ELSE prev

\* old_W, old_b = W, b inside the batch loop: cur is the present value, prev
\* the one saved before, m the batch
SavedOld(cur, prev, m) == cur

AddLoss(total, lv) == IF total = NaN \/ lv = NaN THEN NaN ELSE total + lv

\* lines 249-251 on a state s of the mini-batch loop
SampleOf(s) ==
    [s EXCEPT !.key = SampleKey(s.epoch, s.key),
              !.indices = randint(SampleKey(s.epoch, s.key), num_batches, batch_size,
                                  Len(X)),
              !.minibatch_loss = 0,
              !.i = 0,
              !.pc = "mb_batch"]

\* lines 253-261 for batch s.i, and the for loop's advance
BatchOf(s) ==
    LET xb == Batch(X, s.indices, s.i)
        yb == Batch(y, s.indices, s.i)
        gW == GradW(s.W, s.b, xb, yb)
        gb == GradB(s.W, s.b, xb, yb)
        lv == loss(s.W, s.b, xb, yb)
    IN  [s EXCEPT !.old_W = SavedOld(s.W, s.old_W, s.i),
                  !.old_b = SavedOld(s.b, s.old_b, s.i),
                  !.loss_val = lv,
                  !.minibatch_loss = AddLoss(s.minibatch_loss, lv),
                  !.grad_W = gW,
                  !.grad_b = gb,
                  !.W = [j \in 1..2 |-> BatchStep(s.W[j], gW[j], s.learning_rate)],
                  !.b = BatchStep(s.b, gb, s.learning_rate),
                  !.i = IF s.i + 1 < num_batches THEN s.i + 1 ELSE s.i,
                  !.pc = IF s.i + 1 < num_batches THEN "mb_batch" ELSE "mb_test"]

\* lines 266-269
TestOf(s) ==
    IF Converged(DiffW(s.W, s.old_W), Diff(s.b, s.old_b))
    THEN [s EXCEPT !.pc = "mb_pvals"]
    ELSE [s EXCEPT !.epoch = NextEpoch(s.epoch), !.pc = "mb_sample"]

\* the notebook's variables that the mini-batch loop reads and writes
LoopState ==
    [pc |-> pc, i |-> i, W |-> W, b |-> b, learning_rate |-> learning_rate,
     epoch |-> epoch, old_W |-> old_W, old_b |-> old_b, loss_val |-> loss_val,
     grad_W |-> grad_W, grad_b |-> grad_b, key |-> key, indices |-> indices,
     minibatch_loss |-> minibatch_loss]

Becomes(s) ==
    /\ pc' = s.pc
    /\ i' = s.i
    /\ W' = s.W
    /\ b' = s.b
    /\ learning_rate' = s.learning_rate
    /\ epoch' = s.epoch
    /\ old_W' = s.old_W
    /\ old_b' = s.old_b
    /\ loss_val' = s.loss_val
    /\ grad_W' = s.grad_W
    /\ grad_b' = s.grad_b
    /\ key' = s.key
    /\ indices' = s.indices
    /\ minibatch_loss' = s.minibatch_loss

MBSample ==
    /\ pc = "mb_sample"
    /\ Becomes(SampleOf(LoopState))
    /\ epoch_W' = W
    /\ epoch_b' = b
    /\ UNCHANGED <<taylorVars, dataVars, pvalVars, fit_W, fit_b, runVars>>

MBBatch ==
    /\ pc = "mb_batch"
    /\ Becomes(BatchOf(LoopState))
    /\ UNCHANGED <<taylorVars, dataVars, pvalVars, histVars, runVars>>

MBTest ==
    /\ pc = "mb_test"
    /\ Becomes(TestOf(LoopState))
    /\ UNCHANGED <<taylorVars, dataVars, pvalVars, histVars, runVars>>

MBPValues ==
    /\ pc = "mb_pvals"
    /\ PValues
    /\ pc' = "done"
    /\ UNCHANGED <<i, taylorVars, dataVars, W, b, learning_rate, epoch, stepVars,
                   sampleVars, histVars, runVars>>

---------------------------------------------------------------------------
(* The notebook, run top to bottom *)

Init ==
    /\ pc = "taylor"
    /\ i = 0
    /\ d = 0
    /\ approx_total = SqrtX0 * TaylorScale
    /\ factorial = 1
    /\ \E ds \in Datasets : X = ds.X /\ y = ds.y
    /\ W = <<0, 0>> /\ b = 0
    /\ learning_rate = <<1, 1>>
    /\ epoch = 0
    /\ old_W = <<0, 0>> /\ old_b = 0
    /\ loss_val = 0
    /\ grad_W = <<0, 0>> /\ grad_b = 0
    /\ key = PRNGKey(2)
    /\ indices = <<>>
    /\ minibatch_loss = 0
    /\ sigma2 = 0
    /\ eig_vals = <<>>
    /\ eig_vecs = <<>>
    /\ W_std = <<>>
    /\ W_pvals = <<>>
    /\ fit_W = <<0, 0>> /\ fit_b = 0
    /\ epoch_W = <<0, 0>> /\ epoch_b = 0
    /\ run1 = [pc |-> "off"]
    /\ run2 = [pc |-> "off"]

Next ==
    \/ TaylorStep
    \/ TaylorDone
    \/ FBSetup
    \/ FullBatchEpoch
    \/ FBPValues
    \/ MBSetup
    \/ MBSample
    \/ MBBatch
    \/ MBTest
    \/ MBPValues

Spec == Init /\ [][Next]_vars

\* The notebook is one sequential program: it takes its next step whenever it
\* has one.
FairSpec == Spec /\ WF_vars(Next)

-------------------------------------------------------------------------------------------------------------------------------------------------
(* Two runs of the mini-batch loop from the same dataset, initial (W, b),  *)
(* learning rate, batch size and batches per epoch, stepping together.     *)
(* Each run finds its own value in the global key when it starts.          *)

Keys == { PRNGKey(2), PRNGKey(5) }

RunStart(m, lr, k) ==
    [start_key |-> k, pc |-> "mb_sample", i |-> 0, W |-> m.W, b |-> m.b, learning_rate |-> lr,
     epoch |-> 0, old_W |-> <<0, 0>>, old_b |-> 0, loss_val |-> 0,
     grad_W |-> <<0, 0>>, grad_b |-> 0, key |-> k, indices |-> <<>>,
     minibatch_loss |-> 0]

InitTwoRuns ==
    /\ pc = "two_runs"
    /\ i = 0
    /\ d = 0
    /\ approx_total = SqrtX0 * TaylorScale
    /\ factorial = 1
    /\ \E ds \in Datasets : X = ds.X /\ y = ds.y
    /\ W = <<0, 0>> /\ b = 0
    /\ learning_rate = <<1, 1>>
    /\ epoch = 0
    /\ old_W = <<0, 0>> /\ old_b = 0
    /\ loss_val = 0
    /\ grad_W = <<0, 0>> /\ grad_b = 0
    /\ key = PRNGKey(2)
    /\ indices = <<>>
    /\ minibatch_loss = 0
    /\ sigma2 = 0
    /\ eig_vals = <<>>
    /\ eig_vecs = <<>>
    /\ W_std = <<>>
    /\ W_pvals = <<>>
    /\ fit_W = <<0, 0>> /\ fit_b = 0
    /\ epoch_W = <<0, 0>> /\ epoch_b = 0
    /\ \E m \in InitialModels, lr \in MiniBatchLearningRates \cup LearningRates,
          k1 \in Keys, k2 \in Keys :
          /\ run1 = RunStart(m, lr, k1)
          /\ run2 = RunStart(m, lr, k2)

mainVars == <<pc, i, taylorVars, dataVars, W, b, learning_rate, epoch, stepVars,
              sampleVars, pvalVars, histVars>>

TwoRunsSample ==
    /\ run1.pc = "mb_sample" /\ run2.pc = "mb_sample"
    /\ run1' = SampleOf(run1)
    /\ run2' = SampleOf(run2)
    /\ UNCHANGED mainVars

TwoRunsBatch ==
    /\ run1.pc = "mb_batch" /\ run2.pc = "mb_batch"
    /\ run1' = BatchOf(run1)
    /\ run2' = BatchOf(run2)
    /\ UNCHANGED mainVars

TwoRunsTest ==
    /\ run1.pc = "mb_test" /\ run2.pc = "mb_test"
    /\ run1' = TestOf(run1)
    /\ run2' = TestOf(run2)
    /\ UNCHANGED mainVars

NextTwoRuns ==
    \/ TwoRunsSample
    \/ TwoRunsBatch
    \/ TwoRunsTest

SpecTwoRuns == InitTwoRuns /\ [][NextTwoRuns]_vars

---------------------------------------------------------------------------
(* The claims *)

SumSq(dv) == SumTo([j \in 1..Len(dv) |-> dv[j] * dv[j]], Len(dv))

AllFinite(dv) == \A j \in 1..Len(dv) : dv[j] # NaN /\ dv[j] # Inf

\* the norm of after - before is below the tolerance
ChangeBelowTol(after, before) ==
    /\ AllFinite(after) /\ AllFinite(before)
    /\ SumSq([j \in 1..Len(after) |-> after[j] - before[j]]) < Tol * Tol

\* C1: a pass of the full-batch loop leaves the loop if and only if the norm
\* of the change it made to W and the norm of the change it made to b are both
\* below the tolerance; otherwise it goes on to the next epoch, and the loop is
\* left in no other way.
C1_ExitIffBothBelowTol ==
    [][/\ pc = "fb_loop" =>
            /\ pc' \in {"fb_loop", "fb_pvals"}
            /\ (pc' = "fb_pvals") <=>
                   (ChangeBelowTol(W', W) /\ ChangeBelowTol(<<b'>>, <<b>>))
            /\ pc' = "fb_loop" => epoch' = IF epoch < MaxEpoch THEN epoch + 1 ELSE epoch
       /\ (pc' = "fb_pvals" /\ pc # "fb_pvals") => pc = "fb_loop"]_vars

\* the loop went on at least once and then ended
C1_Witness == pc = "fb_pvals" /\ epoch > 0 /\ epoch < MaxEpoch /\ W # old_W

\* C2: the fitting loops eventually terminate, whatever the data, the initial
\* parameters and the learning rate.
C2_FitsTerminate == <>(pc = "done")

\* one mini-batch step from (w, c) on batch m of the present indices
OneBatch(w, c, m) ==
    LET xb == [k \in 1..batch_size |-> X[indices[m + 1][k] + 1]]
        yb == [k \in 1..batch_size |-> y[indices[m + 1][k] + 1]]
        gW == GradW(w, c, xb, yb)
        gb == GradB(w, c, xb, yb)
        step(v, g) == IF v = NaN \/ g = NaN THEN NaN
                      ELSE Clip(v - Quot(Quot(learning_rate[1] * g, learning_rate[2]),
                                         batch_size))
    IN  [W |-> <<step(w[1], gW[1]), step(w[2], gW[2])>>, b |-> step(c, gb)]

RECURSIVE AfterBatches(_)
\* the parameters after batches 0..n-1 of the present epoch, one after another
AfterBatches(n) ==
    IF n = 0 THEN [W |-> epoch_W, b |-> epoch_b]
    ELSE OneBatch(AfterBatches(n - 1).W, AfterBatches(n - 1).b, n - 1)

\* C3: the mini-batch convergence test runs once per epoch, after all the
\* batches, and compares with the tolerance only the change made by the last
\* batch: old_W, old_b are the values just before the last batch's update.
C3_TestUsesLastBatchOnly ==
    [][/\ pc' = "mb_test" => pc = "mb_batch" /\ i = num_batches - 1
       /\ pc = "mb_test" =>
            /\ [W |-> old_W, b |-> old_b] = AfterBatches(num_batches - 1)
            /\ [W |-> W, b |-> b] = OneBatch(old_W, old_b, num_batches - 1)
            /\ pc' \in {"mb_pvals", "mb_sample"}
            /\ (pc' = "mb_pvals") <=>
                   (ChangeBelowTol(W, old_W) /\ ChangeBelowTol(<<b>>, <<old_b>>))
       /\ (pc' = "mb_pvals" /\ pc # "mb_pvals") => pc = "mb_test"]_vars

\* the loop ended on an epoch whose earlier batches moved the parameters by
\* the tolerance or more
C3_Witness ==
    /\ pc = "mb_pvals"
    /\ epoch < MaxEpoch
    /\ ~(ChangeBelowTol(old_W, epoch_W) /\ ChangeBelowTol(<<old_b>>, <<epoch_b>>))

\* C4: within an epoch the batches are applied one after another, each at
\* the parameters the earlier ones left, each subtracting
\* learning_rate * gradient / batch_size.
C4_BatchesAppliedInSequence ==
    /\ pc = "mb_batch" => [W |-> W, b |-> b] = AfterBatches(i)
    /\ pc = "mb_test" => [W |-> W, b |-> b] = AfterBatches(num_batches)

\* an epoch's batches are done, each moved the parameters, and the last
\* batch's gradient is not what it was at the parameters the epoch began with
C4_Witness ==
    /\ pc = "mb_test"
    /\ epoch < MaxEpoch
    /\ IsFinite(W, b)
    /\ old_W # epoch_W
    /\ W # old_W
    /\ grad_W # GradW(epoch_W, epoch_b,
                      [k \in 1..batch_size |-> X[indices[num_batches][k] + 1]],
                      [k \in 1..batch_size |-> y[indices[num_batches][k] + 1]])

\* C5: two runs of the mini-batch fit on the same inputs draw the same
\* indices in every epoch (from the epoch counter alone), pass through the
\* same parameters and end at the same epoch with the same result.
C5_RunsAgree ==
    /\ [run1 EXCEPT !.key = 0, !.start_key = 0] = [run2 EXCEPT !.key = 0, !.start_key = 0]
    /\ run1.pc # "mb_sample" =>
          /\ run1.key = run2.key
          /\ run1.indices = randint(<<0, run1.epoch>>, num_batches, batch_size, Len(X))

\* both runs, started with different values in the global key, have ended
\* after more than one epoch
C5_Witness ==
    /\ run1.pc = "mb_pvals" /\ run2.pc = "mb_pvals"
    /\ run1.start_key # run2.start_key
    /\ run1.epoch > 0 /\ run1.epoch < MaxEpoch

RankDeficient(xs) == Det3(Gram(xs)) = 0

\* C6: on a rank-deficient augmented design matrix the p-value computation
\* returns no p-values.
C6_RankDeficientGivesNoPValues == RankDeficient(X) => W_pvals = <<>>

PValuesComputed == pc \in {"mb_setup", "done"}

\* C7 as stated: the absolute coefficient is divided by the square root of
\* the diagonal entry.
C7_DividesBySqrtOfDiagonal ==
    PValuesComputed =>
        \A j \in 1..3 :
            W_pvals[j] =
                LET p == NormCdf(FDiv(Abs(<<b, W[1], W[2]>>[j]), FSqrt(W_std[j])))
                IN  IF p = NaN THEN NaN ELSE 2 * (Scale - p)

\* C7 as amended: for every coefficient, the intercept included, the p-value
\* is 2 * (1 - Phi(|coefficient| / M[j][j])), M rebuilt from the
\* eigendecomposition of (1/residual_variance) * X_aug^T X_aug: the absolute
\* coefficient is divided by the diagonal entry itself.
C7_DividesByDiagonal ==
    PValuesComputed =>
        /\ \A k \in 1..3 : eig_vals[k] \notin {NaN, -1, 0, 1} =>
              \A j \in 1..3 :
                  SumTo([m \in 1..3 |-> ScaledGram(sigma2, X)[j][m] * eig_vecs[k].v[m]], 3)
                      = eig_vals[k] * eig_vecs[k].v[j]
        /\ W_std = StdDiag(sigma2, eig_vals, eig_vecs)
        /\ \A j \in 1..3 :
              W_pvals[j] =
                  LET p == NormCdf(FDiv(Abs(<<b, W[1], W[2]>>[j]), W_std[j]))
                  IN  IF p = NaN THEN NaN ELSE 2 * (Scale - p)

\* p-values were computed on a full-rank design, and dividing by the square
\* root of the diagonal would have given another p-value
C7_Witness ==
    /\ PValuesComputed
    /\ ~RankDeficient(X)
    /\ AllFinite(W_std) /\ AllFinite(W_pvals)
    /\ ~C7_DividesBySqrtOfDiagonal

\* the exact Taylor polynomial of order n of sqrt about 49 at 43
TaylorPolynomial(n) ==
    SqrtX0 * TaylorScale
    + SumTo([k \in 1..n |-> Quot(DerivAtX0(k) * Pow(Offset, k), Factorial(k))], n)

\* C8: after n passes of the Taylor loop approx_total is
\* 7 + sum over k = 1..n of sqrt^(k)(49) * (-6)^k / k!.
C8_TaylorPolynomial == approx_total = TaylorPolynomial(d)

\* C9 as stated: sigma2 is the loss of the returned parameters over the
\* whole training set.
C9_Sigma2IsLossOfReturnedFit == PValuesComputed => sigma2 = loss(W, b, X, y)

\* C9 as amended: sigma2 is the last loss the loop computed, the loss of the
\* parameters before the final update: over X, y in the full-batch cell, over
\* the last batch alone in the mini-batch cell.
C9_Sigma2IsLastLoopLoss ==
    /\ pc = "mb_setup" => sigma2 = loss(old_W, old_b, X, y)
    /\ pc = "done" =>
          sigma2 = loss(old_W, old_b,
                        [k \in 1..batch_size |-> X[indices[num_batches][k] + 1]],
                        [k \in 1..batch_size |-> y[indices[num_batches][k] + 1]])

\* the mini-batch cell has ended after a last batch that moved the
\* parameters, and sigma2 is not the training loss of what it returns
C9_Witness ==
    /\ pc = "done"
    /\ W # old_W
    /\ sigma2 # loss(W, b, X, y)

\* C10: the mini-batch cell resets the epoch counter and the learning rate
\* and leaves the model alone, so its first batch update starts from the
\* (W, b) on which the full-batch loop ended; no step changes the dataset.
C10_MiniBatchStartsFromFullBatchFit ==
    [][/\ pc = "mb_setup" => W' = W /\ b' = b /\ epoch' = 0
       /\ (pc = "mb_batch" /\ epoch = 0 /\ i = 0) =>
             /\ W = fit_W /\ b = fit_b
             /\ old_W' = fit_W /\ old_b' = fit_b
       /\ X' = X /\ y' = y]_vars

\* the first batch of the mini-batch cell has moved the parameters away from
\* the full-batch fit, which is not one of the initial models
C10_Witness ==
    /\ pc = "mb_batch" /\ epoch = 0 /\ i = 1
    /\ old_W = fit_W /\ old_b = fit_b
    /\ W # fit_W
    /\ \A m \in InitialModels : m.W # fit_W

====
